---- MODULE Spec2Model ----
(***************************************************************************)
(* erdantic: discovery of the composition graph of data model classes      *)
(* (erd.py: create, adapt_model, search_composition_graph) and the         *)
(* assembly of the EntityRelationshipDiagram.                              *)
(*                                                                         *)
(* A class is named by its key (its fully qualified name); a Model adapter *)
(* instance is identified by the class it wraps, because Model.__eq__ and  *)
(* Model.__hash__ compare the key.  An Edge is an object of its own: it    *)
(* carries the number of the constructor call that made it, and the set    *)
(* seen_edges tells two Edge objects apart with Edge.__eq__ only.          *)
(***************************************************************************)
EXTENDS Integers, Sequences, FiniteSets, TLC

MaxDepthLimit == 2
MaxRoots == 2

Calls == {1, 2, 3}

(* enums.py: class Orientation(str, Enum); __str__ returns the value. *)
Orientation == [VERTICAL |-> "TB", HORIZONTAL |-> "LR"]

OrientationStr(o) == Orientation[o]

(* The default of the orientation parameter of EntityRelationshipDiagram.__init__. *)
DefaultOrientation == "HORIZONTAL"

(* ------------------------------------------------------------------ *)
(* Declared field types.  A declared type is kept as the sequence of  *)
(* its leaves in declaration order: a class, a string annotation or a *)
(* typing.ForwardRef.                                                 *)
(* ------------------------------------------------------------------ *)
T(cls) == [kind |-> "type", ref |-> cls]
StrRef(s) == [kind |-> "str", ref |-> s]
FwdRef(s) == [kind |-> "fwd", ref |-> s]

Fld(name, leaves, many, nullable) ==
    [name |-> name, type_obj |-> leaves, many |-> many, nullable |-> nullable]

ModuleObj == "<module>"
NotATypeObj == "<instance>"

(* examples/pydantic.py *)
PartyWorld ==
    [fields |->
        [c \in {"Adventurer", "Party", "Quest", "QuestGiver"} |->
            CASE c = "Adventurer" ->
                    << Fld("name", <<T("str")>>, FALSE, FALSE),
                       Fld("profession", <<T("str")>>, FALSE, FALSE),
                       Fld("level", <<T("int")>>, FALSE, FALSE),
                       Fld("alignment", <<T("Alignment")>>, FALSE, FALSE) >>
              [] c = "QuestGiver" ->
                    << Fld("name", <<T("str")>>, FALSE, FALSE),
                       Fld("faction", <<T("str")>>, FALSE, TRUE),
                       Fld("location", <<T("str")>>, FALSE, FALSE) >>
              [] c = "Quest" ->
                    << Fld("name", <<T("str")>>, FALSE, FALSE),
                       Fld("giver", <<T("QuestGiver")>>, FALSE, FALSE),
                       Fld("reward_gold", <<T("int")>>, FALSE, FALSE) >>
              [] c = "Party" ->
                    << Fld("name", <<T("str")>>, FALSE, FALSE),
                       Fld("formed_datetime", <<T("datetime")>>, FALSE, FALSE),
                       Fld("members", <<T("Adventurer")>>, TRUE, FALSE),
                       Fld("active_quest", <<T("Quest")>>, FALSE, TRUE) >>],
     module |-> <<"Adventurer", "Alignment", "Party", "Quest", "QuestGiver">>,
     rootObjs |-> {"Party", ModuleObj}]

(* R -> B -> C -> D together with R -> C: C is reached along two paths. *)
DiamondWorld ==
    [fields |->
        [c \in {"B", "C", "D", "R"} |->
            CASE c = "R" -> << Fld("b", <<T("B")>>, FALSE, FALSE),
                               Fld("c", <<T("C")>>, FALSE, TRUE) >>
              [] c = "B" -> << Fld("c", <<T("C")>>, FALSE, FALSE) >>
              [] c = "C" -> << Fld("d", <<T("D")>>, TRUE, FALSE) >>
              [] c = "D" -> << >>],
     module |-> << >>,
     rootObjs |-> {"R", "B", "C"}]

(* A <-> B is a cycle of two, S refers to itself through a container. *)
CycleWorld ==
    [fields |->
        [c \in {"A", "B", "S"} |->
            CASE c = "A" -> << Fld("b", <<T("B")>>, FALSE, FALSE) >>
              [] c = "B" -> << Fld("a", <<T("A")>>, FALSE, TRUE),
                               Fld("s", <<T("S")>>, FALSE, FALSE) >>
              [] c = "S" -> << Fld("parent", <<T("S")>>, FALSE, TRUE),
                               Fld("children", <<T("S")>>, TRUE, FALSE) >>],
     module |-> << >>,
     rootObjs |-> {"A", "B", "S"}]

(* Union[int, B, C] and Optional[Dict[B, B]]: unknown candidates, repeated
   candidates, a collection that may be None. *)
UnionWorld ==
    [fields |->
        [c \in {"B", "C", "P", "U"} |->
            CASE c = "U" -> << Fld("x", <<T("int"), T("B"), T("C")>>, FALSE, FALSE),
                               Fld("y", <<T("str")>>, FALSE, FALSE) >>
              [] c = "P" -> << Fld("pair", <<T("B"), T("B")>>, TRUE, TRUE) >>
              [] c = "B" -> << Fld("c", <<T("C")>>, FALSE, FALSE) >>
              [] c = "C" -> << >>],
     module |-> << >>,
     rootObjs |-> {"U", "P", "int", NotATypeObj}]

(* F declares a string annotation, G an unevaluated ForwardRef. *)
ForwardRefWorld ==
    [fields |->
        [c \in {"B", "F", "G"} |->
            CASE c = "G" -> << Fld("f", <<T("F")>>, FALSE, FALSE),
                               Fld("later", <<T("B"), FwdRef("Later")>>, FALSE, TRUE) >>
              [] c = "F" -> << Fld("ok", <<T("B")>>, FALSE, FALSE),
                               Fld("next", <<StrRef("Next")>>, FALSE, FALSE) >>
              [] c = "B" -> << >>],
     module |-> << >>,
     rootObjs |-> {"G", "F", "B"}]

WorldTable ==
    [w \in {"party", "diamond", "cycle", "union", "forwardref"} |->
        CASE w = "party" -> PartyWorld
          [] w = "diamond" -> DiamondWorld
          [] w = "cycle" -> CycleWorld
          [] w = "union" -> UnionWorld
          [] w = "forwardref" -> ForwardRefWorld]

Worlds == DOMAIN WorldTable

(* Model.key is the fully qualified class name, and Models are ordered by it. *)
KeyOrder ==
    << "A", "Adventurer", "B", "C", "D", "F", "G", "P", "Party", "Quest",
       "QuestGiver", "R", "S", "U" >>

KeyTable ==
    [m \in { KeyOrder[i] : i \in 1..Len(KeyOrder) } |->
        CHOOSE i \in 1..Len(KeyOrder) : KeyOrder[i] = m]

Key(m) == KeyTable[m]

(* Model.name is the class's __name__. *)
ModelName(m) == m

ModelLt(a, b) == Key(a) < Key(b)

VARIABLES
    world,          \* the name of the set of classes that exist in the process
    pc,             \* per call: "idle", "roots", "search", "done", "raised"
    roots,          \* per call: models_or_modules
    depth_limit,    \* per call
    orientation,    \* per call
    models,         \* per call: the list built by create's first loop
    ri,             \* per call: position of create's second loop in models
    seen_models,    \* per call
    seen_edges,     \* per call
    nedges,         \* per call: number of Edge objects constructed
    stack,          \* per call: the frames of search_composition_graph
    expanded,       \* per call: models whose field loop was entered
    diagram,        \* per call: the returned EntityRelationshipDiagram
    error,          \* per call: the exception that left create
    registry,       \* model_adapter_registry: the adapter names in registration order
    edge,           \* the outcome of the latest call of Edge(...) made by a caller
    arrowhead,      \* what dot_arrowhead() returned for that Edge
    adapted         \* the outcome of the latest call of adapt_model made by a caller

vars == << world, pc, roots, depth_limit, orientation, models, ri, seen_models,
           seen_edges, nedges, stack, expanded, diagram, error,
           registry, edge, arrowhead, adapted >>

(* What create and search_composition_graph only read or never see. *)
direct == << registry, edge, arrowhead, adapted >>

NoDiagram == [models |-> << >>, edges |-> << >>, name |-> "<none>", orientation |-> "<none>"]
NoError == [type |-> "<none>", model |-> "", field |-> "", forward_ref |-> ""]

Final == {"done", "raised"}

NoArrowhead == "<none>"
NotAdapted ==
    [arg |-> "<none>", out |-> [ok |-> FALSE, model |-> "<none>", adapter |-> "<none>"]]

World == WorldTable[world]

(* ------------------------------------------------------------------ *)
(* The adapter registry and adapt_model.                              *)
(* ------------------------------------------------------------------ *)

(* __init__.py imports erdantic.pydantic, then erdantic.dataclasses. *)
model_adapter_registry == << "pydantic", "dataclasses" >>

(* The classes of the worlds above that are standard library dataclasses;
   every other class with fields is a pydantic.BaseModel. *)
DataclassModels == {"D", "S"}

(* The dataclasses among them that are subclasses of pydantic.BaseModel as
   well: both adapters accept them. *)
BaseModelDataclasses == {"D"}

IsType(obj) == obj \notin {ModuleObj, NotATypeObj}

is_model_type(adapter, obj) ==
    /\ IsType(obj)
    /\ obj \in DOMAIN World.fields
    /\ IF adapter = "pydantic"
       THEN obj \notin DataclassModels \/ obj \in BaseModelDataclasses
       ELSE obj \in DataclassModels

Matching(obj) ==
    {i \in 1..Len(registry) : is_model_type(registry[i], obj)}

adapt_model_LastMatch(obj) ==
    IF Matching(obj) = {}
    THEN [ok |-> FALSE, model |-> obj, adapter |-> "<none>"]
    ELSE [ok |-> TRUE, model |-> obj,
          adapter |-> registry[CHOOSE i \in Matching(obj) : \A j \in Matching(obj) : i >= j]]

(* for model_adapter in model_adapter_registry.values(): the first that
   accepts obj; raise UnknownModelTypeError(model=obj) *)
adapt_model(obj) ==
    IF Matching(obj) = {}
    THEN [ok |-> FALSE, model |-> obj, adapter |-> "<none>"]
    ELSE [ok |-> TRUE, model |-> obj,
          adapter |-> registry[CHOOSE i \in Matching(obj) : \A j \in Matching(obj) : i <= j]]

RECURSIVE find_models(_)
find_models(members) ==
    IF members = << >> THEN << >>
    ELSE LET member == Head(members)
             hits == SelectSeq(registry,
                               LAMBDA a : is_model_type(a, member))
         IN [i \in 1..Len(hits) |-> member] \o find_models(Tail(members))

Fields(m) == World.fields[m]

FieldIndex(m, fname) == CHOOSE i \in 1..Len(Fields(m)) : Fields(m)[i].name = fname

(* get_recursive_args: the leaves of the declared type, or the first forward
   reference among them as a failure. *)
RefPositions(tp) == {i \in 1..Len(tp) : tp[i].kind # "type"}

get_recursive_args(tp) ==
    IF RefPositions(tp) = {}
    THEN [ok |-> TRUE, args |-> [i \in 1..Len(tp) |-> tp[i].ref],
          exc |-> "<none>", forward_ref |-> ""]
    ELSE LET i == CHOOSE i \in RefPositions(tp) : \A j \in RefPositions(tp) : i <= j
         IN [ok |-> FALSE, args |-> << >>,
             exc |-> IF tp[i].kind = "str" THEN "_StringForwardRefError"
                                           ELSE "_UnevaluatedForwardRefError",
             forward_ref |-> tp[i].ref]

(* ------------------------------------------------------------------ *)
(* Edge and EntityRelationshipDiagram.                                *)
(* ------------------------------------------------------------------ *)

EdgeFieldUnchecked(source, source_field) == TRUE

(* Edge.__init__: the guard, then the three attributes. *)
EdgeFieldKnown(source, source_field) ==
    \E i \in 1..Len(Fields(source)) : Fields(source)[i].name = source_field

Edge(source, source_field, target, id) ==
    [source |-> source, source_field |-> source_field, target |-> target, id |-> id]

(* The outcome of a call of Edge(...) by a caller: the arguments, the exception
   that left the constructor, and the object if there is one. *)
NoEdgeObj == Edge("", "", "", 0)

NoEdge == [args |-> << >>, raised |-> "<none>", made |-> FALSE, obj |-> NoEdgeObj]

(* PydanticField.is_many: self.field.shape > 1, which the field record keeps as
   many; PydanticField.is_nullable: self.field.allow_none. *)
is_many(field) == field.many

is_nullable(field) == field.nullable

(* self.source_field of an Edge: the Field object, found by its name. *)
SourceField(e) == Fields(e.source)[FieldIndex(e.source, e.source_field)]

dot_arrowhead_NullableOnly(e) ==
    LET cardinality == IF is_many(SourceField(e)) THEN "crow" ELSE "nonetee"
        modality == IF is_nullable(SourceField(e)) THEN "odot" ELSE "tee"
    IN cardinality \o modality

(* Edge.dot_arrowhead *)
dot_arrowhead(e) ==
    LET cardinality == IF is_many(SourceField(e)) THEN "crow" ELSE "nonetee"
        modality == IF is_nullable(SourceField(e)) \/ is_many(SourceField(e))
                    THEN "odot" ELSE "tee"
    IN cardinality \o modality

EdgeHashIdentity(e) == << e.id >>

(* hash((self.source, self.source_field, self.target)) *)
EdgeHash(e) == << e.source, e.source_field, e.target >>

EdgeEq(a, b) == EdgeHash(a) = EdgeHash(b)

(* set.add for a set of Edge objects *)
AddEdgeToSet(S, e) == IF \E x \in S : EdgeEq(x, e) THEN S ELSE S \cup {e}

EdgeSortKey(e) == << Key(e.source), FieldIndex(e.source, e.source_field), Key(e.target) >>

TupleLt(a, b) ==
    \E i \in 1..Len(a) : /\ a[i] < b[i]
                         /\ \A j \in 1..(i - 1) : a[j] = b[j]

EdgeLt(a, b) == TupleLt(EdgeSortKey(a), EdgeSortKey(b))

(* sorted(models): a stable sort with Model.__lt__.  The element at place i
   goes behind the elements smaller than it and the equal ones before it. *)
ModelRank(s, i) ==
    1 + Cardinality({ j \in 1..Len(s) :
                        \/ ModelLt(s[j], s[i])
                        \/ (~ModelLt(s[i], s[j]) /\ j < i) })

SortedModels(s) ==
    [r \in 1..Len(s) |-> s[CHOOSE i \in 1..Len(s) : ModelRank(s, i) = r]]

(* sorted(edges): a stable sort with Edge.__lt__ *)
EdgeRank(s, i) ==
    1 + Cardinality({ j \in 1..Len(s) :
                        \/ EdgeLt(s[j], s[i])
                        \/ (~EdgeLt(s[i], s[j]) /\ j < i) })

SortedEdges(s) ==
    [r \in 1..Len(s) |-> s[CHOOSE i \in 1..Len(s) : EdgeRank(s, i) = r]]

(* list(seen_edges): some enumeration of the set; sorted() erases its order,
   so one enumeration stands for all: the Edges in the order they were made. *)
EdgeList(S) ==
    [r \in 1..Cardinality(S) |->
        CHOOSE e \in S : Cardinality({ x \in S : x.id < e.id }) = r - 1]

ModelList(S) ==
    [r \in 1..Cardinality(S) |->
        CHOOSE m \in S : Cardinality({ x \in S : Key(x) < Key(m) }) = r - 1]

(* list(seen_models): the enumerations of the set that differ in their first
   element.  sorted() erases the rest of the order, models[0] is all that
   keeps any of it. *)
ListsOf(S) == { << first >> \o ModelList(S \ {first}) : first \in S }

(* EntityRelationshipDiagram.__init__ *)
DiagramName(ms) == ModelName(ms[1])

EntityRelationshipDiagram(ms, es, o) ==
    [models |-> SortedModels(ms),
     edges |-> SortedEdges(es),
     name |-> DiagramName(ms),
     orientation |-> OrientationStr(o)]

(* The orientation create hands to the constructor: none, so the default. *)
CreateOrientation(o) == DefaultOrientation

(* ------------------------------------------------------------------ *)
(* create and search_composition_graph, one step at a time.           *)
(* ------------------------------------------------------------------ *)

Frame(model, depth) ==
    [model |-> model, depth |-> depth, stage |-> "enter",
     fi |-> 0, args |-> << >>, ai |-> 0]

Top(c) == stack[c][Len(stack[c])]

SetTop(c, f) == [stack EXCEPT ![c] = [@ EXCEPT ![Len(@)] = f]]

(* create, first loop: classes are kept, modules are searched, anything else
   is refused. *)
RECURSIVE CollectModels(_)
CollectModels(mms) ==
    IF mms = << >> THEN << >>
    ELSE (IF Head(mms) = ModuleObj THEN find_models(World.module) ELSE << Head(mms) >>)
         \o CollectModels(Tail(mms))

NotTypes(mms) == {i \in 1..Len(mms) : ~IsType(mms[i]) /\ mms[i] # ModuleObj}

create(c, mms, dl, o) ==
    /\ pc[c] = "idle"
    /\ roots' = [roots EXCEPT ![c] = mms]
    /\ depth_limit' = [depth_limit EXCEPT ![c] = dl]
    /\ orientation' = [orientation EXCEPT ![c] = o]
    /\ IF NotTypes(mms) # {}
       THEN /\ pc' = [pc EXCEPT ![c] = "raised"]
            /\ error' = [error EXCEPT ![c] =
                   [type |-> "NotATypeError",
                    model |-> mms[CHOOSE i \in NotTypes(mms) : \A j \in NotTypes(mms) : i <= j],
                    field |-> "", forward_ref |-> ""]]
            /\ UNCHANGED << models, ri >>
       ELSE /\ pc' = [pc EXCEPT ![c] = "roots"]
            /\ models' = [models EXCEPT ![c] = CollectModels(mms)]
            /\ ri' = [ri EXCEPT ![c] = 1]
            /\ UNCHANGED error
    /\ UNCHANGED << world, direct, seen_models, seen_edges, nedges, stack, expanded, diagram >>

(* create, second loop: adapt_model(raw_model), then the search from depth 0 *)
AdaptRoot(c) ==
    /\ pc[c] = "roots"
    /\ ri[c] <= Len(models[c])
    /\ adapt_model(models[c][ri[c]]).ok
    /\ stack' = [stack EXCEPT ![c] = << Frame(adapt_model(models[c][ri[c]]).model, 0) >>]
    /\ pc' = [pc EXCEPT ![c] = "search"]
    /\ UNCHANGED << world, direct, roots, depth_limit, orientation, models, ri, seen_models,
                    seen_edges, nedges, expanded, diagram, error >>

RootUnknown(c) ==
    /\ pc[c] = "roots"
    /\ ri[c] <= Len(models[c])
    /\ ~adapt_model(models[c][ri[c]]).ok
    /\ pc' = [pc EXCEPT ![c] = "raised"]
    /\ error' = [error EXCEPT ![c] =
           [type |-> "UnknownModelTypeError", model |-> models[c][ri[c]],
            field |-> "", forward_ref |-> ""]]
    /\ UNCHANGED << world, direct, roots, depth_limit, orientation, models, ri, seen_models,
                    seen_edges, nedges, stack, expanded, diagram >>

(* create, last line: the Diagram of list(seen_models) and list(seen_edges) *)
Return(c) ==
    /\ pc[c] = "roots"
    /\ ri[c] > Len(models[c])
    /\ seen_models[c] # {}
    /\ \E ms \in ListsOf(seen_models[c]), es \in { << >> \o EdgeList(seen_edges[c]) } :
          diagram' = [diagram EXCEPT ![c] =
              EntityRelationshipDiagram(ms, es, CreateOrientation(orientation[c]))]
    /\ pc' = [pc EXCEPT ![c] = "done"]
    /\ UNCHANGED << world, direct, roots, depth_limit, orientation, models, ri, seen_models,
                    seen_edges, nedges, stack, expanded, error >>

(* models[0] of an empty list *)
ReturnEmpty(c) ==
    /\ pc[c] = "roots"
    /\ ri[c] > Len(models[c])
    /\ seen_models[c] = {}
    /\ pc' = [pc EXCEPT ![c] = "raised"]
    /\ error' = [error EXCEPT ![c] =
           [type |-> "IndexError", model |-> "", field |-> "", forward_ref |-> ""]]
    /\ UNCHANGED << world, direct, roots, depth_limit, orientation, models, ri, seen_models,
                    seen_edges, nedges, stack, expanded, diagram >>

(* A call of search_composition_graph returns to its caller: the frame below,
   or create's loop over the roots. *)
ReturnFromSearch(c) ==
    /\ stack' = [stack EXCEPT ![c] = SubSeq(@, 1, Len(@) - 1)]
    /\ pc' = [pc EXCEPT ![c] = IF Len(stack[c]) = 1 THEN "roots" ELSE "search"]
    /\ ri' = [ri EXCEPT ![c] = IF Len(stack[c]) = 1 THEN @ + 1 ELSE @]

AlreadySeen(model, seen) == model \in seen

RecordModelForgotten(seen, model) == seen

(* seen_models.add(model) *)
RecordModel(seen, model) == seen \cup {model}

MayDescendInclusive(depth, limit) == depth <= limit

(* if depth < depth_limit *)
MayDescend(depth, limit) == depth < limit

Entering(c) == pc[c] = "search" /\ Top(c).stage = "enter"

(* if model not in seen_models: ... else nothing *)
SkipSeen(c) ==
    /\ Entering(c)
    /\ AlreadySeen(Top(c).model, seen_models[c])
    /\ ReturnFromSearch(c)
    /\ UNCHANGED << world, direct, roots, depth_limit, orientation, models, seen_models,
                    seen_edges, nedges, expanded, diagram, error >>

(* the depth test placed before seen_models.add(model) *)
RecordOnlyUnrecorded(c) ==
    /\ Entering(c)
    /\ ~AlreadySeen(Top(c).model, seen_models[c])
    /\ ~MayDescend(Top(c).depth, depth_limit[c])
    /\ ReturnFromSearch(c)
    /\ UNCHANGED << world, direct, roots, depth_limit, orientation, models, seen_models,
                    seen_edges, nedges, expanded, diagram, error >>

(* seen_models.add(model), and depth >= depth_limit *)
RecordOnly(c) ==
    /\ Entering(c)
    /\ ~AlreadySeen(Top(c).model, seen_models[c])
    /\ ~MayDescend(Top(c).depth, depth_limit[c])
    /\ seen_models' = [seen_models EXCEPT ![c] = RecordModel(@, Top(c).model)]
    /\ ReturnFromSearch(c)
    /\ UNCHANGED << world, direct, roots, depth_limit, orientation, models,
                    seen_edges, nedges, expanded, diagram, error >>

(* seen_models kept in one set for all calls, as a mutable default argument
   or a module-level set would be *)
ExpandShared(c) ==
    /\ Entering(c)
    /\ ~AlreadySeen(Top(c).model, seen_models[c])
    /\ MayDescend(Top(c).depth, depth_limit[c])
    /\ seen_models' = [d \in Calls |-> RecordModel(seen_models[d], Top(c).model)]
    /\ expanded' = [expanded EXCEPT ![c] = @ \cup {Top(c).model}]
    /\ stack' = SetTop(c, [Top(c) EXCEPT !.stage = "fields"])
    /\ UNCHANGED << world, direct, pc, roots, depth_limit, orientation, models, ri,
                    seen_edges, nedges, diagram, error >>

(* seen_models.add(model), and depth < depth_limit: the loop over the fields *)
Expand(c) ==
    /\ Entering(c)
    /\ ~AlreadySeen(Top(c).model, seen_models[c])
    /\ MayDescend(Top(c).depth, depth_limit[c])
    /\ seen_models' = [seen_models EXCEPT ![c] = RecordModel(@, Top(c).model)]
    /\ expanded' = [expanded EXCEPT ![c] = @ \cup {Top(c).model}]
    /\ stack' = SetTop(c, [Top(c) EXCEPT !.stage = "fields"])
    /\ UNCHANGED << world, direct, pc, roots, depth_limit, orientation, models, ri,
                    seen_edges, nedges, diagram, error >>

InFields(c) == pc[c] = "search" /\ Top(c).stage = "fields"

NextFieldArgs(c) == get_recursive_args(Fields(Top(c).model)[Top(c).fi + 1].type_obj)

(* for field in model.fields: get_recursive_args(field.type_obj) *)
NextField(c) ==
    /\ InFields(c)
    /\ Top(c).ai = Len(Top(c).args)
    /\ Top(c).fi < Len(Fields(Top(c).model))
    /\ NextFieldArgs(c).ok
    /\ stack' = SetTop(c, [Top(c) EXCEPT !.fi = @ + 1,
                                         !.args = NextFieldArgs(c).args,
                                         !.ai = 0])
    /\ UNCHANGED << world, direct, pc, roots, depth_limit, orientation, models, ri, seen_models,
                    seen_edges, nedges, expanded, diagram, error >>

ForwardRefErrorOfRoot(stk, field, res) ==
    [type |-> IF res.exc = "_StringForwardRefError" THEN "StringForwardRefError"
                                                    ELSE "UnevaluatedForwardRefError",
     model |-> stk[1].model,
     field |-> field.name,
     forward_ref |-> res.forward_ref]

(* except _UnevaluatedForwardRefError / _StringForwardRefError: raise the
   public error with this call's model and field. *)
ForwardRefError(stk, field, res) ==
    [type |-> IF res.exc = "_StringForwardRefError" THEN "StringForwardRefError"
                                                    ELSE "UnevaluatedForwardRefError",
     model |-> stk[Len(stk)].model,
     field |-> field.name,
     forward_ref |-> res.forward_ref]

(* The exception classes the two outer except clauses name.  The errors they
   raise are classes of their own, so the same clauses of the calls further
   out let them pass. *)
CaughtAsForwardRef == {"_UnevaluatedForwardRefError", "_StringForwardRefError"}

(* The exception on its way out of the calls further out: one that their except
   clauses catch is raised again with the model and field of each in turn, the
   outermost last. *)
Propagated(stk, err) ==
    IF err.type \in CaughtAsForwardRef /\ Len(stk) > 1
    THEN [err EXCEPT !.model = stk[1].model,
                     !.field = Fields(stk[1].model)[stk[1].fi].name]
    ELSE err

RaiseForwardRef(c) ==
    /\ InFields(c)
    /\ Top(c).ai = Len(Top(c).args)
    /\ Top(c).fi < Len(Fields(Top(c).model))
    /\ ~NextFieldArgs(c).ok
    /\ error' = [error EXCEPT ![c] =
           Propagated(stack[c],
               ForwardRefError(stack[c], Fields(Top(c).model)[Top(c).fi + 1],
                               NextFieldArgs(c)))]
    /\ pc' = [pc EXCEPT ![c] = "raised"]
    /\ stack' = [stack EXCEPT ![c] = << >>]
    /\ UNCHANGED << world, direct, roots, depth_limit, orientation, models, ri, seen_models,
                    seen_edges, nedges, expanded, diagram >>

(* the loop over the fields is over *)
EndFields(c) ==
    /\ InFields(c)
    /\ Top(c).ai = Len(Top(c).args)
    /\ Top(c).fi = Len(Fields(Top(c).model))
    /\ ReturnFromSearch(c)
    /\ UNCHANGED << world, direct, roots, depth_limit, orientation, models, seen_models,
                    seen_edges, nedges, expanded, diagram, error >>

NextArg(c) == Top(c).args[Top(c).ai + 1]

AfterUnknownBreak(frame) == [frame EXCEPT !.ai = Len(frame.args)]

(* except UnknownModelTypeError: pass *)
AfterUnknown(frame) == [frame EXCEPT !.ai = @ + 1]

SkipUnknown(c) ==
    /\ InFields(c)
    /\ Top(c).ai < Len(Top(c).args)
    /\ ~adapt_model(NextArg(c)).ok
    /\ stack' = SetTop(c, AfterUnknown(Top(c)))
    /\ UNCHANGED << world, direct, pc, roots, depth_limit, orientation, models, ri, seen_models,
                    seen_edges, nedges, expanded, diagram, error >>

(* field_model = adapt_model(arg); seen_edges.add(Edge(...)); the recursive call *)
EdgeTarget(arg) == adapt_model(arg).model

ChildDepthSame(depth) == depth

(* depth=depth + 1 *)
ChildDepth(depth) == depth + 1

(* the Edge made only for a target that was not seen before *)
AddEdgeUnseenTarget(c) ==
    /\ InFields(c)
    /\ Top(c).ai < Len(Top(c).args)
    /\ adapt_model(NextArg(c)).ok
    /\ LET field == Fields(Top(c).model)[Top(c).fi]
       IN /\ seen_edges' = [seen_edges EXCEPT ![c] =
                 IF AlreadySeen(EdgeTarget(NextArg(c)), seen_models[c])
                 THEN @
                 ELSE AddEdgeToSet(@, Edge(Top(c).model, field.name,
                                           EdgeTarget(NextArg(c)), nedges[c] + 1))]
          /\ nedges' = [nedges EXCEPT ![c] = @ + 1]
          /\ stack' = [stack EXCEPT ![c] =
                 Append([@ EXCEPT ![Len(@)] = [Top(c) EXCEPT !.ai = @ + 1]],
                        Frame(EdgeTarget(NextArg(c)), ChildDepth(Top(c).depth)))]
    /\ UNCHANGED << world, direct, pc, error, roots, depth_limit, orientation, models, ri,
                    seen_models, expanded, diagram >>

AddEdge(c) ==
    /\ InFields(c)
    /\ Top(c).ai < Len(Top(c).args)
    /\ adapt_model(NextArg(c)).ok
    /\ LET field == Fields(Top(c).model)[Top(c).fi]
       IN IF EdgeFieldKnown(Top(c).model, field.name)
          THEN /\ seen_edges' = [seen_edges EXCEPT ![c] =
                      AddEdgeToSet(@, Edge(Top(c).model, field.name,
                                           EdgeTarget(NextArg(c)), nedges[c] + 1))]
               /\ nedges' = [nedges EXCEPT ![c] = @ + 1]
               /\ stack' = [stack EXCEPT ![c] =
                      Append([@ EXCEPT ![Len(@)] = [Top(c) EXCEPT !.ai = @ + 1]],
                             Frame(EdgeTarget(NextArg(c)), ChildDepth(Top(c).depth)))]
               /\ UNCHANGED << pc, error >>
          ELSE /\ error' = [error EXCEPT ![c] =
                      [type |-> "UnknownFieldError", model |-> Top(c).model,
                       field |-> field.name, forward_ref |-> ""]]
               /\ pc' = [pc EXCEPT ![c] = "raised"]
               /\ stack' = [stack EXCEPT ![c] = << >>]
               /\ UNCHANGED << seen_edges, nedges >>
    /\ UNCHANGED << world, direct, roots, depth_limit, orientation, models, ri, seen_models,
                    expanded, diagram >>

(* ------------------------------------------------------------------ *)
(* The Edge class used by a caller.                                   *)
(* ------------------------------------------------------------------ *)

(* Edge(source, source_field, target): __init__ raises or sets the attributes *)
NewEdge(source, source_field, target) ==
    /\ pc[1] = "idle"
    /\ edge' = IF EdgeFieldKnown(source, source_field)
               THEN [args |-> << source, source_field, target >>,
                     raised |-> "<none>", made |-> TRUE,
                     obj |-> Edge(source, source_field, target, 1)]
               ELSE [args |-> << source, source_field, target >>,
                     raised |-> "UnknownFieldError", made |-> FALSE,
                     obj |-> NoEdgeObj]
    /\ arrowhead' = NoArrowhead
    /\ UNCHANGED << world, registry, adapted, pc, roots, depth_limit, orientation, models,
                    ri, seen_models, seen_edges, nedges, stack, expanded, diagram, error >>

(* edge.dot_arrowhead() on the Edge the caller holds *)
DotArrowhead ==
    /\ edge.made
    /\ arrowhead' = dot_arrowhead(edge.obj)
    /\ UNCHANGED << world, registry, edge, adapted, pc, roots, depth_limit, orientation,
                    models, ri, seen_models, seen_edges, nedges, stack, expanded, diagram,
                    error >>

(* ------------------------------------------------------------------ *)
(* The adapter registry filled at load time, and adapt_model used by  *)
(* a caller.                                                          *)
(* ------------------------------------------------------------------ *)

Adapters == { model_adapter_registry[i] : i \in 1..Len(model_adapter_registry) }

(* @register_model_adapter(type_name): model_adapter_registry[type_name] = cls;
   a key that is there already keeps its place. *)
register_model_adapter(type_name) ==
    /\ adapted = NotAdapted
    /\ registry' = IF \E i \in 1..Len(registry) : registry[i] = type_name
                   THEN registry
                   ELSE Append(registry, type_name)
    /\ UNCHANGED << world, edge, arrowhead, adapted, pc, roots, depth_limit, orientation,
                    models, ri, seen_models, seen_edges, nedges, stack, expanded, diagram,
                    error >>

(* adapt_model(obj) called by a caller *)
AdaptModel(obj) ==
    /\ adapted' = [arg |-> obj, out |-> adapt_model(obj)]
    /\ UNCHANGED << world, registry, edge, arrowhead, pc, roots, depth_limit, orientation,
                    models, ri, seen_models, seen_edges, nedges, stack, expanded, diagram,
                    error >>

(* ------------------------------------------------------------------ *)
(* The program: a first call of create, then the same call again with *)
(* the roots in any order.                                            *)
(* ------------------------------------------------------------------ *)

RECURSIVE SeqsUpTo(_, _)
SeqsUpTo(S, n) ==
    IF n = 0 THEN { << >> }
    ELSE SeqsUpTo(S, n - 1) \cup
         { Append(s, x) : s \in { t \in SeqsUpTo(S, n - 1) : Len(t) = n - 1 }, x \in S }

Reorderings(s) ==
    { [i \in 1..Len(s) |-> s[p[i]]] :
        p \in { q \in [1..Len(s) -> 1..Len(s)] : \A i, j \in 1..Len(s) : q[i] = q[j] => i = j } }

(* Nothing has been called yet. *)
Fresh ==
    /\ pc = [c \in Calls |-> "idle"]
    /\ roots = [c \in Calls |-> << >>]
    /\ depth_limit = [c \in Calls |-> 0]
    /\ orientation = [c \in Calls |-> DefaultOrientation]
    /\ models = [c \in Calls |-> << >>]
    /\ ri = [c \in Calls |-> 1]
    /\ seen_models = [c \in Calls |-> {}]
    /\ seen_edges = [c \in Calls |-> {}]
    /\ nedges = [c \in Calls |-> 0]
    /\ stack = [c \in Calls |-> << >>]
    /\ expanded = [c \in Calls |-> {}]
    /\ diagram = [c \in Calls |-> NoDiagram]
    /\ error = [c \in Calls |-> NoError]
    /\ edge = NoEdge
    /\ arrowhead = NoArrowhead
    /\ adapted = NotAdapted

Init ==
    /\ world \in Worlds
    /\ registry = model_adapter_registry
    /\ Fresh

FirstCall ==
    /\ pc[1] = "idle"
    /\ \E mms \in SeqsUpTo(World.rootObjs, MaxRoots), dl \in 0..MaxDepthLimit,
          o \in DOMAIN Orientation :
           create(1, mms, dl, o)

RepeatCall ==
    /\ pc[1] \in Final
    /\ pc[2] = "idle"
    /\ \E mms \in Reorderings(roots[1]) : create(2, mms, depth_limit[1], orientation[1])

Step(c) ==
    \/ AdaptRoot(c)
    \/ RootUnknown(c)
    \/ Return(c)
    \/ ReturnEmpty(c)
    \/ SkipSeen(c)
    \/ RecordOnly(c)
    \/ Expand(c)
    \/ NextField(c)
    \/ RaiseForwardRef(c)
    \/ EndFields(c)
    \/ SkipUnknown(c)
    \/ AddEdge(c)

Next ==
    \/ FirstCall
    \/ RepeatCall
    \/ \E c \in Calls : Step(c)

Spec == Init /\ [][Next]_vars

(* One call of create alone.  create is synchronous straight-line code: a call
   that can take a step takes it. *)
NextOne ==
    \/ FirstCall
    \/ Step(1)

FairSpec == Init /\ [][NextOne]_vars /\ WF_vars(NextOne)

(* The names of the fields of the models of the world: the Field objects a
   caller can hand to Edge(...). *)
FieldNames ==
    UNION { { World.fields[m][i].name : i \in 1..Len(World.fields[m]) } :
            m \in DOMAIN World.fields }

(* A process that uses the Edge class itself, or else calls create once. *)
EdgeNext ==
    \/ \E source \in DOMAIN World.fields, source_field \in FieldNames,
          target \in DOMAIN World.fields :
            NewEdge(source, source_field, target)
    \/ DotArrowhead
    \/ (edge = NoEdge /\ FirstCall)
    \/ Step(1)

EdgeSpec == Init /\ [][EdgeNext]_vars

(* The objects a caller hands to adapt_model: the classes of the world, what
   create is given, and a class that is no model. *)
AdaptObjs == DOMAIN World.fields \cup World.rootObjs \cup {"int"}

(* A process whose adapter modules are loaded in some order, and that calls
   adapt_model afterwards. *)
AdapterInit ==
    /\ world \in Worlds
    /\ registry = << >>
    /\ Fresh

AdapterNext ==
    \/ \E type_name \in Adapters : register_model_adapter(type_name)
    \/ \E obj \in AdaptObjs : AdaptModel(obj)

AdapterSpec == AdapterInit /\ [][AdapterNext]_vars

(* Two calls of create that run interleaved, step by step in any order
   (calls 2 and 3), after the call that call 2 repeats has run alone (call 1).
   A call is given no root, or one: a class or an object that is no type. *)
ConcurrentRoots == { << >> } \cup { << m >> : m \in World.rootObjs \ {ModuleObj} }

AloneCall ==
    /\ pc[1] = "idle"
    /\ \E mms \in ConcurrentRoots, dl \in 0..MaxDepthLimit :
          create(1, mms, dl, DefaultOrientation)

SameCall ==
    /\ pc[1] \in Final
    /\ pc[2] = "idle"
    /\ create(2, roots[1], depth_limit[1], orientation[1])

OtherCall ==
    /\ pc[1] \in Final
    /\ pc[3] = "idle"
    /\ \E mms \in ConcurrentRoots, dl \in 0..MaxDepthLimit :
          create(3, mms, dl, DefaultOrientation)

ConcurrentNext ==
    \/ AloneCall
    \/ SameCall
    \/ OtherCall
    \/ \E c \in Calls : Step(c)

ConcurrentSpec == Init /\ [][ConcurrentNext]_vars

(* ------------------------------------------------------------------ *)
(* The composition graph of a world, for stating the properties.      *)
(* ------------------------------------------------------------------ *)

AllModels == DOMAIN World.fields

(* The classes a model of world w refers to in its declared field types. *)
ComponentsIn(w, m) ==
    LET fs == WorldTable[w].fields[m]
    IN UNION { { fs[i].type_obj[k].ref :
                   k \in { k \in 1..Len(fs[i].type_obj) : fs[i].type_obj[k].kind = "type" } } :
               i \in 1..Len(fs) }
       \cap DOMAIN WorldTable[w].fields

RECURSIVE WithinIn(_, _, _)
WithinIn(w, R, k) ==
    IF k <= 0 THEN R
    ELSE LET P == WithinIn(w, R, k - 1)
         IN P \cup UNION { ComponentsIn(w, m) : m \in P }

(* ReachTable[w][m][k]: the models at most k composition edges away from m;
   no shortest path is longer than the number of models. *)
ReachTable ==
    [w \in Worlds |->
        [m \in DOMAIN WorldTable[w].fields |->
            [k \in 0..Cardinality(DOMAIN WorldTable[w].fields) |-> WithinIn(w, {m}, k)]]]

(* The models at most k composition edges away from a model of R. *)
Within(R, k) ==
    LET n == Cardinality(AllModels)
    IN UNION { ReachTable[world][m][IF k > n THEN n ELSE k] : m \in R }

RootModels(c) == { models[c][i] : i \in 1..Len(models[c]) } \cap AllModels

SeqSet(s) == { s[i] : i \in 1..Len(s) }

Count(x, s) == Cardinality({ i \in 1..Len(s) : s[i] = x })

Triple(e) == << e.source, e.source_field, e.target >>

EdgeTriples(c) == { Triple(diagram[c].edges[i]) : i \in 1..Len(diagram[c].edges) }

(* C1: a frame of search_composition_graph is in its loop over the fields only
   at a depth below depth_limit, and no frame is deeper than depth_limit; every
   recorded edge leaves a model less than depth_limit edges away from a root
   and reaches one at most depth_limit edges away; with depth_limit 0 the
   Diagram holds the root models and no edge. *)
C1_DepthLimiting ==
    \A c \in Calls :
        /\ \A i \in 1..Len(stack[c]) :
              /\ stack[c][i].depth <= depth_limit[c]
              /\ stack[c][i].stage = "fields" => stack[c][i].depth < depth_limit[c]
        /\ \A e \in seen_edges[c] :
              /\ depth_limit[c] >= 1
              /\ e.source \in Within(RootModels(c), depth_limit[c] - 1)
              /\ e.target \in Within(RootModels(c), depth_limit[c])
        /\ pc[c] = "done" =>
              /\ SeqSet(diagram[c].edges) = seen_edges[c]
              /\ depth_limit[c] = 0 =>
                    /\ diagram[c].edges = << >>
                    /\ SeqSet(diagram[c].models) = RootModels(c)

C1_Witness ==
    /\ world = "cycle"
    /\ pc[1] = "done"
    /\ roots[1] = << "A" >>
    /\ depth_limit[1] = 1
    /\ SeqSet(diagram[1].models) = {"A", "B"}
    /\ EdgeTriples(1) = { << "A", "b", "B" >> }

(* A model is on a cycle when a composition path of one edge or more leads
   from it back to it. *)
OnCycle(m) ==
    m \in Within(ComponentsIn(world, m), Cardinality(AllModels))

DeclaresForwardRef(m) ==
    \E i \in 1..Len(Fields(m)) : RefPositions(Fields(m)[i].type_obj) # {}

(* The roots of call c are model classes, one of them on a cycle, and no model
   that can be reached from them declares a forward reference. *)
CycleCase(c) ==
    /\ roots[c] # << >>
    /\ \A i \in 1..Len(roots[c]) : roots[c][i] \in AllModels
    /\ \E i \in 1..Len(roots[c]) : OnCycle(roots[c][i])
    /\ \A m \in Within(SeqSet(roots[c]), Cardinality(AllModels)) : ~DeclaresForwardRef(m)

(* C2: every call of create ends; when its roots lie on a cycle of the
   composition graph (a self-reference included) it ends by returning a
   Diagram, for every depth_limit, and each model on a cycle that the search
   visited, each root among them, is in the Diagram's models exactly once. *)
C2_CycleSafety ==
    /\ <>(pc[1] \in Final)
    /\ [](pc[1] \in Final /\ CycleCase(1) =>
            /\ pc[1] = "done"
            /\ \A m \in AllModels :
                  OnCycle(m) =>
                      Count(m, diagram[1].models) =
                          (IF m \in seen_models[1] \cup SeqSet(roots[1]) THEN 1 ELSE 0))

C2_Witness ==
    /\ world = "cycle"
    /\ pc[1] = "done"
    /\ roots[1] = << "S" >>
    /\ depth_limit[1] > Cardinality(Within({"S"}, Cardinality(AllModels)))
    /\ diagram[1].models = << "S" >>
    /\ EdgeTriples(1) = { << "S", "parent", "S" >>, << "S", "children", "S" >> }

(* EntityRelationshipDiagram.__hash__, which __eq__ compares *)
DiagramHash(d) ==
    << d.models, [i \in 1..Len(d.edges) |-> EdgeHash(d.edges[i])] >>

(* C3: two calls of create with the same roots, supplied in any order, and
   the same depth_limit return Diagrams that compare equal. *)
C3_Determinism ==
    (pc[1] = "done" /\ pc[2] = "done") =>
        DiagramHash(diagram[1]) = DiagramHash(diagram[2])

(* C4: no two Edges of seen_edges, and no two places of the Diagram's
   edges, hold the same (source, source field, target). *)
C4_NoDuplicateEdges ==
    \A c \in Calls :
        /\ \A a, b \in seen_edges[c] : Triple(a) = Triple(b) => a = b
        /\ pc[c] = "done" =>
              \A i, j \in 1..Len(diagram[c].edges) :
                  Triple(diagram[c].edges[i]) = Triple(diagram[c].edges[j]) => i = j

C4_Witness ==
    /\ pc[1] = "done"
    /\ "P" \in expanded[1]
    /\ nedges[1] > Len(diagram[1].edges)
    /\ << "P", "pair", "B" >> \in EdgeTriples(1)

(* C5: the source and the target of every edge of a returned Diagram are among
   its models. *)
C5_Closure ==
    \A c \in Calls :
        pc[c] = "done" =>
            \A i \in 1..Len(diagram[c].edges) :
                /\ diagram[c].edges[i].source \in SeqSet(diagram[c].models)
                /\ diagram[c].edges[i].target \in SeqSet(diagram[c].models)

C5_Witness ==
    /\ pc[1] = "done"
    /\ depth_limit[1] = 2
    /\ \E i \in 1..Len(diagram[1].edges) :
          /\ diagram[1].edges[i].target \notin expanded[1]
          /\ Fields(diagram[1].edges[i].target) # << >>
          /\ diagram[1].edges[i].target \in SeqSet(diagram[1].models)

ForwardRefErrors == {"StringForwardRefError", "UnevaluatedForwardRefError"}

(* The first forward reference in the declared type of field fname of m. *)
DeclaredRef(m, fname) ==
    LET tp == Fields(m)[FieldIndex(m, fname)].type_obj
    IN tp[CHOOSE i \in RefPositions(tp) : \A j \in RefPositions(tp) : i <= j]

(* C6: a call that expanded a model declaring a forward reference returns no
   Diagram; it ends with the forward-reference error of the reference's kind,
   whose model and field are the model that was being expanded and its field
   that declares the reference, and whose forward_ref is that reference. *)
C6_ForwardRefFatal ==
    \A c \in Calls :
        /\ pc[c] = "done" => \A m \in expanded[c] : ~DeclaresForwardRef(m)
        /\ (\E m \in expanded[c] : DeclaresForwardRef(m)) /\ pc[c] \in Final =>
              /\ pc[c] = "raised"
              /\ error[c].type \in ForwardRefErrors
        /\ error[c].type \in ForwardRefErrors =>
              /\ pc[c] = "raised"
              /\ diagram[c] = NoDiagram
              /\ error[c].model \in expanded[c]
              /\ EdgeFieldKnown(error[c].model, error[c].field)
              /\ RefPositions(Fields(error[c].model)[FieldIndex(error[c].model,
                                                              error[c].field)].type_obj) # {}
              /\ DeclaredRef(error[c].model, error[c].field).ref = error[c].forward_ref
              /\ DeclaredRef(error[c].model, error[c].field).kind =
                    (IF error[c].type = "StringForwardRefError" THEN "str" ELSE "fwd")

C6_Witness ==
    /\ pc[1] = "raised"
    /\ roots[1] = << "G" >>
    /\ error[1] = [type |-> "StringForwardRefError", model |-> "F",
                   field |-> "next", forward_ref |-> "Next"]
    /\ diagram[1] = NoDiagram

Adaptable(obj) == obj \in AllModels

(* The classes field i of model m names, in order (its forward references left out). *)
LeafClasses(m, i) ==
    { Fields(m)[i].type_obj[k].ref :
        k \in { k \in 1..Len(Fields(m)[i].type_obj) : Fields(m)[i].type_obj[k].kind = "type" } }

(* C7: a root that no adapter accepts ends create with UnknownModelTypeError
   for that root and without a Diagram; a field candidate that no adapter
   accepts gives no error, no edge and no model, and every other candidate of
   every field of the expanded model still gets its edge. *)
C7_UnknownModelType ==
    \A c \in Calls :
        /\ error[c].type = "UnknownModelTypeError" =>
              /\ pc[c] = "raised"
              /\ diagram[c] = NoDiagram
              /\ error[c].model \in SeqSet(models[c])
              /\ ~Adaptable(error[c].model)
        /\ pc[c] \in Final /\ (\E i \in 1..Len(models[c]) : ~Adaptable(models[c][i])) =>
              pc[c] = "raised"
        /\ pc[c] = "done" =>
              /\ SeqSet(diagram[c].models) \subseteq AllModels
              /\ \A m \in expanded[c] : \A i \in 1..Len(Fields(m)) :
                    \A t \in LeafClasses(m, i) :
                        Adaptable(t) <=> << m, Fields(m)[i].name, t >> \in EdgeTriples(c)

C7_Witness ==
    /\ pc[1] = "done"
    /\ "U" \in expanded[1]
    /\ "int" \in LeafClasses("U", 1)
    /\ { << "U", "x", "B" >>, << "U", "x", "C" >> } \subseteq EdgeTriples(1)

(* C8: the name of a returned Diagram is the name of the first root model. *)
C8_DiagramName ==
    \A c \in Calls :
        pc[c] = "done" => diagram[c].name = ModelName(adapt_model(models[c][1]).model)

(* C9: a returned Diagram carries the orientation that create was given. *)
C9_Orientation ==
    \A c \in Calls :
        pc[c] = "done" => diagram[c].orientation = OrientationStr(orientation[c])

(* C10: in the world of examples/pydantic.py, create(Party, depth_limit=2)
   returns the models Adventurer, Party, Quest, QuestGiver and the edges
   Party.members -> Adventurer, Party.active_quest -> Quest and
   Quest.giver -> QuestGiver; create(Party, depth_limit=1) returns the models
   Adventurer, Party, Quest and the two edges that leave Party. *)
C10_PartyScenario ==
    \A c \in Calls :
        (world = "party" /\ pc[c] \in Final /\ roots[c] = << "Party" >>) =>
            /\ pc[c] = "done"
            /\ depth_limit[c] = 2 =>
                  /\ diagram[c].models = << "Adventurer", "Party", "Quest", "QuestGiver" >>
                  /\ [i \in 1..Len(diagram[c].edges) |-> Triple(diagram[c].edges[i])] =
                        << << "Party", "members", "Adventurer" >>,
                           << "Party", "active_quest", "Quest" >>,
                           << "Quest", "giver", "QuestGiver" >> >>
            /\ depth_limit[c] = 1 =>
                  /\ diagram[c].models = << "Adventurer", "Party", "Quest" >>
                  /\ [i \in 1..Len(diagram[c].edges) |-> Triple(diagram[c].edges[i])] =
                        << << "Party", "members", "Adventurer" >>,
                           << "Party", "active_quest", "Quest" >> >>

C10_Witness ==
    /\ world = "party"
    /\ pc[1] = "done"
    /\ roots[1] = << "Party" >>
    /\ depth_limit[1] = 2
    /\ Len(diagram[1].models) = 4
    /\ Len(diagram[1].edges) = 3

(* The fields of model m whose name is n. *)
FieldsNamed(m, n) == { i \in 1..Len(Fields(m)) : Fields(m)[i].name = n }

(* C11: the arrowhead of an Edge follows its source field alone: crowodot for
   a field that holds many, whether or not it may be None (cardinality many,
   modality optional), noneteeodot for a single-valued field that may be None
   (one, optional), noneteetee for a single-valued field that may not (one,
   mandatory). *)
C11_CardinalityModality ==
    arrowhead # NoArrowhead =>
        \A i \in FieldsNamed(edge.obj.source, edge.obj.source_field) :
            LET many == Fields(edge.obj.source)[i].many
                nullable == Fields(edge.obj.source)[i].nullable
            IN /\ many => arrowhead = "crowodot"
               /\ (~many /\ nullable) => arrowhead = "noneteeodot"
               /\ (~many /\ ~nullable) => arrowhead = "noneteetee"

C11_Witness ==
    /\ world = "party"
    /\ edge.made
    /\ edge.args = << "Party", "members", "Adventurer" >>
    /\ ~Fields("Party")[3].nullable
    /\ arrowhead = "crowodot"

(* C12: Edge(source, source_field, target) with a source_field that is no
   field of source raises UnknownFieldError and makes no Edge, and with a
   field of source it makes the Edge of its three arguments; create never
   ends with UnknownFieldError, and every Edge it recorded names a field of
   the Edge's source. *)
C12_EdgeValidation ==
    /\ edge # NoEdge =>
          IF FieldsNamed(edge.args[1], edge.args[2]) = {}
          THEN /\ edge.raised = "UnknownFieldError"
               /\ ~edge.made
               /\ edge.obj = NoEdgeObj
          ELSE /\ edge.raised = "<none>"
               /\ edge.made
               /\ Triple(edge.obj) = edge.args
    /\ \A c \in Calls :
          /\ error[c].type # "UnknownFieldError"
          /\ \A e \in seen_edges[c] : FieldsNamed(e.source, e.source_field) # {}

C12_Witness ==
    /\ world = "diamond"
    /\ edge.args = << "R", "d", "C" >>
    /\ edge.raised = "UnknownFieldError"
    /\ ~edge.made

(* The places of the registry whose adapter accepts obj. *)
Accepting(obj) == { i \in 1..Len(registry) : is_model_type(registry[i], obj) }

(* C13: adapt_model(obj) returns an instance, wrapping obj, of the adapter
   registered earliest among those whose is_model_type accepts obj, also when
   several accept it; when none accepts it, it raises UnknownModelTypeError
   carrying obj. *)
C13_AdapterLookup ==
    adapted # NotAdapted =>
        /\ adapted.out.model = adapted.arg
        /\ IF Accepting(adapted.arg) = {}
           THEN /\ ~adapted.out.ok
                /\ adapted.out.adapter = "<none>"
           ELSE /\ adapted.out.ok
                /\ \E i \in Accepting(adapted.arg) :
                      /\ adapted.out.adapter = registry[i]
                      /\ \A j \in 1..(i - 1) : j \notin Accepting(adapted.arg)

C13_Witness ==
    /\ world = "diamond"
    /\ registry = << "dataclasses", "pydantic" >>
    /\ adapted.arg = "D"
    /\ Cardinality(Accepting("D")) = 2
    /\ adapted.out.ok
    /\ adapted.out.adapter = "dataclasses"

(* The sets a call of create owns. *)
OwnSets(c) == << seen_models[c], seen_edges[c] >>

(* What a call of create gives its caller; two Diagrams are the same when
   __eq__ says so. *)
Outcome(c) ==
    [pc |-> pc[c], error |-> error[c], diagram |-> DiagramHash(diagram[c]),
     orientation |-> diagram[c].orientation]

(* C14: no step changes the adapter registry; a step that changes the
   seen_models or seen_edges of a call is a step of that call's own traversal
   and changes nothing of any other call; and a call interleaved with another
   ends as the same call ended when it ran alone: with the same Diagram or the
   same error. *)
C14_Isolation ==
    /\ [][/\ registry' = registry
          /\ \A c \in Calls :
                OwnSets(c)' # OwnSets(c) =>
                    /\ pc[c] = "search"
                    /\ stack'[c] # stack[c]
                    /\ \A d \in Calls \ {c} :
                          /\ OwnSets(d)' = OwnSets(d)
                          /\ stack'[d] = stack[d]
                          /\ pc'[d] = pc[d]]_vars
    /\ []((pc[1] \in Final /\ pc[2] \in Final) => Outcome(2) = Outcome(1))

C14_Witness ==
    /\ world = "diamond"
    /\ pc[1] = "done"
    /\ pc[2] = "search"
    /\ pc[3] = "search"
    /\ roots[2] = << "R" >>
    /\ roots[3] = << "B" >>
    /\ seen_edges[2] # {}
    /\ seen_edges[3] # {}
    /\ seen_models[2] # seen_models[3]
    /\ "C" \in seen_models[2] \cap seen_models[3]

(* C15: a returned Diagram holds every model at most depth_limit composition
   edges away from a root, and every composition edge that leaves a model less
   than depth_limit edges away from a root, whichever path the traversal took
   to a model first. *)
C15_Completeness ==
    \A c \in Calls :
        pc[c] = "done" =>
            /\ Within(RootModels(c), depth_limit[c]) \subseteq SeqSet(diagram[c].models)
            /\ depth_limit[c] >= 1 =>
                  \A m \in Within(RootModels(c), depth_limit[c] - 1) :
                      \A i \in 1..Len(Fields(m)) :
                          \A t \in LeafClasses(m, i) :
                              Adaptable(t) => << m, Fields(m)[i].name, t >> \in EdgeTriples(c)

(* create(R, depth_limit=2) where R -> B -> C -> D and R -> C: C is recorded
   at depth 2 below B before R's own field c is looked at. *)
C15_DiamondCase ==
    /\ world = "diamond"
    /\ pc[1] = "done"
    /\ roots[1] = << "R" >>
    /\ depth_limit[1] = 2
    /\ "D" \in Within(RootModels(1), 2)
    /\ "C" \in Within(RootModels(1), 1)
    /\ diagram[1].models = << "B", "C", "R" >>
    /\ << "C", "d", "D" >> \notin EdgeTriples(1)

SeenTriples(c) == { Triple(e) : e \in seen_edges[c] }

(* The candidates (field j, place k in its declared type) that the loop of a
   frame has passed: all the candidates of the fields before the frame's
   field, and the first ai of that field. *)
PassedCandidates(f) ==
    UNION { { << j, k >> : k \in 1..(IF j = f.fi THEN f.ai
                                               ELSE Len(Fields(f.model)[j].type_obj)) } :
            j \in 1..f.fi }

(* C16: in a model that is being expanded, every candidate type the field loop
   has passed and that adapts to a model has its Edge in seen_edges, whether the
   target was in seen_models before or not; the Edge of a call
   of search_composition_graph is there when the call starts, so a field
   that refers to its own model, or back to a model further up, has its Edge;
   and the field loop is entered only for a model that was not in seen_models. *)
C16_EdgesToSeenTargets ==
    /\ [](\A c \in Calls :
            /\ \A i \in 2..Len(stack[c]) :
                  << stack[c][i - 1].model,
                     Fields(stack[c][i - 1].model)[stack[c][i - 1].fi].name,
                     stack[c][i].model >> \in SeenTriples(c)
            /\ \A i \in 1..Len(stack[c]) :
                  stack[c][i].stage = "fields" =>
                      \A jk \in PassedCandidates(stack[c][i]) :
                          LET leaf == Fields(stack[c][i].model)[jk[1]].type_obj[jk[2]]
                          IN (leaf.kind = "type" /\ Adaptable(leaf.ref)) =>
                                << stack[c][i].model,
                                   Fields(stack[c][i].model)[jk[1]].name,
                                   leaf.ref >> \in SeenTriples(c))
    /\ [][\A c \in Calls :
            (/\ pc[c] = "search"
             /\ Len(stack'[c]) = Len(stack[c])
             /\ Top(c).stage = "enter"
             /\ stack'[c][Len(stack[c])].stage = "fields") =>
                /\ Top(c).model \notin seen_models[c]
                /\ Top(c).model \notin expanded[c]]_vars

C16_Witness ==
    /\ world = "cycle"
    /\ pc[1] = "done"
    /\ roots[1] = << "B" >>
    /\ depth_limit[1] = 2
    /\ expanded[1] = {"A", "B", "S"}
    /\ EdgeTriples(1) = { << "B", "a", "A" >>, << "A", "b", "B" >>, << "B", "s", "S" >>,
                          << "S", "parent", "S" >>, << "S", "children", "S" >> }

====
